---------------------------- MODULE Spec2Model ----------------------------
(***************************************************************************)
(* A model of dynisland-abi: the ActivityIdentifier / ActivityMetadata     *)
(* value types (src/src/module.rs, src/src/activity_identifier.rs), the    *)
(* SabiModule capability set and the UIServerCommand channel.              *)
(*                                                                         *)
(* Strings (RString, String, &str) are finite sequences of character       *)
(* codes.  Four specifications share the variables:                        *)
(*   Spec        two identifiers and their metadata setters (comparisons)  *)
(*   SpecFrame   one identifier and one free-standing metadata value       *)
(*   SpecModule  the module lifecycle (config, optional capabilities,      *)
(*               producers)                                                *)
(*   SpecChan    the command channel between modules and the host          *)
(***************************************************************************)
EXTENDS Integers, Sequences, FiniteSets

VARIABLES
    act, act2,                      \* two ActivityIdentifier values
    id, newArgs, orig, meta, lastName, setCalls,
                                    \* an identifier, the arguments and result
                                    \* of the new() that made it, a metadata
                                    \* value, the last set_window_name argument
                                    \* and the number of such calls
    config, phase, ret, lastOp, lastArg, preConfig,
                                    \* the module: its config, lifecycle state,
                                    \* last returned value, last step taken
                                    \* with its argument, config before it
    initTask, registered, tasks, rtGen, pc, idx, invoked, preTasks,
                                    \* the closure init() spawns; producers:
                                    \* registrations, running tasks, runtime
                                    \* generation, position inside
                                    \* restart_producers, invocations and the
                                    \* tasks running when it was called
    chan, sent, received            \* the command channel

pairVars  == <<act, act2>>
frameVars == <<id, newArgs, orig, meta, lastName, setCalls>>
modVars   == <<config, phase, ret, lastOp, lastArg, preConfig,
               initTask, registered, tasks, rtGen, pc, idx, invoked, preTasks>>
chanVars  == <<chan, sent, received>>
vars      == <<pairVars, frameVars, modVars, chanVars>>

---------------------------------------------------------------------------
\* Bounds and input sets

MaxLen == 2                 \* longest window name drawn
MaxCalls == 3               \* set_window_name calls on the free-standing metadata

Chars == {1, 2}

RECURSIVE StrsOfLen(_)
StrsOfLen(n) ==
    IF n = 0 THEN {<<>>}
    ELSE {<<c>> \o s : c \in Chars, s \in StrsOfLen(n - 1)}

Strs == UNION {StrsOfLen(n) : n \in 0..MaxLen}

ModuleNames   == {<<1>>, <<1, 2>>}
ActivityNames == {<<1>>, <<2>>}
MetaKeys      == {<<1>>}
MetaVals      == {<<2>>}
SlotVals      == {<<1, 1>>}

---------------------------------------------------------------------------
\* ROption<RString> and the value types

RNone    == [tag |-> "RNone", val |-> <<>>]
RSome(s) == [tag |-> "RSome", val |-> s]

None    == [tag |-> "None", val |-> <<>>]
Some(s) == [tag |-> "Some", val |-> s]

\* ActivityMetadata::default().  module.rs declares additional_metadata as a
\* map and its tests insert into it; activity_identifier.rs assigns and reads
\* it as an optional string.  The field keeps both views: entries and slot.
MetadataDefault ==
    [window_name |-> RNone,
     additional_metadata |-> [entries |-> {}, slot |-> RNone]]

MetadataNew == MetadataDefault

\* a mutant of New: the two names swapped
NewSwapped(module_name, activity_name) ==
    [module |-> activity_name, activity |-> module_name,
     metadata |-> MetadataDefault]

New(module_name, activity_name) ==
    [module |-> module_name, activity |-> activity_name,
     metadata |-> MetadataDefault]

Module(self)   == self.module
Activity(self) == self.activity
Metadata(self) == self.metadata

\* metadata_mut: the edit `e` made through the returned reference yields the
\* new metadata, which replaces self.metadata and nothing else
MetadataMut(self, e) == [self EXCEPT !.metadata = e]

SetMetadata(self, metadata) == [self EXCEPT !.metadata = metadata]

\* a mutant of SetWindowName: keeps an earlier name
SetWindowNameKeepFirst(self, window_name) ==
    IF self.window_name = RNone
    THEN [self EXCEPT !.window_name = RSome(window_name)]
    ELSE self

SetWindowName(self, window_name) ==
    [self EXCEPT !.window_name = RSome(window_name)]

WindowName(self) ==
    IF self.window_name.tag = "RSome" THEN Some(self.window_name.val) ELSE None

SetAdditionalMetadata(self, additional_metadata) ==
    [self EXCEPT !.additional_metadata.slot = RSome(additional_metadata)]

AdditionalMetadata(self) ==
    IF self.additional_metadata.slot.tag = "RSome"
    THEN Some(self.additional_metadata.slot.val) ELSE None

\* metadata.additional_metadata.insert(k, v), as the tests do
InsertAdditional(self, k, v) ==
    [self EXCEPT !.additional_metadata.entries =
        {p \in @ : p[1] # k} \cup {<<k, v>>}]

---------------------------------------------------------------------------
\* Equality, hashing and ordering

\* str::hash writes the bytes and then 0xff
HashStr(s) == s \o <<255>>

\* a mutant of IdentifierHash: the window name is hashed too
IdentifierHashWithMetadata(self) ==
    HashStr(self.module) \o HashStr(self.activity)
        \o HashStr(self.metadata.window_name.val)

IdentifierHash(self) == HashStr(self.module) \o HashStr(self.activity)

IdentifierEq(self, other) ==
    self.module = other.module /\ self.activity = other.activity

\* derive(PartialEq) on ActivityMetadata: both fields
MetadataEq(self, other) ==
    /\ self.window_name = other.window_name
    /\ self.additional_metadata = other.additional_metadata

\* HashSet::contains: the bucket of the hash, then ==
HashSetContains(set, x) ==
    \E y \in set : IdentifierHash(y) = IdentifierHash(x) /\ IdentifierEq(y, x)

\* Ord for str / RString: bytewise lexicographic
RECURSIVE StrCmp(_, _)
StrCmp(a, b) ==
    IF a = <<>> /\ b = <<>> THEN "Equal"
    ELSE IF a = <<>> THEN "Less"
    ELSE IF b = <<>> THEN "Greater"
    ELSE IF Head(a) < Head(b) THEN "Less"
    ELSE IF Head(a) > Head(b) THEN "Greater"
    ELSE StrCmp(Tail(a), Tail(b))

\* a mutant of ROptionCmp: the order of std's Option, None first
OptionCmpNoneFirst(x, y) ==
    IF x.tag = "RNone" /\ y.tag = "RNone" THEN "Equal"
    ELSE IF x.tag = "RNone" THEN "Less"
    ELSE IF y.tag = "RNone" THEN "Greater"
    ELSE StrCmp(x.val, y.val)

\* derive(Ord) on enum ROption { RSome(T), RNone }: variants in declaration
\* order, RSome before RNone; test_activity_identifier_cmp pins it
ROptionCmp(x, y) ==
    IF x.tag = "RSome" /\ y.tag = "RSome" THEN StrCmp(x.val, y.val)
    ELSE IF x.tag = "RSome" THEN "Less"
    ELSE IF y.tag = "RSome" THEN "Greater"
    ELSE "Equal"

\* a mutant of MetadataCmp: a tie on the window name is broken by the slot
MetadataCmpWithAdditional(self, other) ==
    IF ROptionCmp(self.window_name, other.window_name) # "Equal"
    THEN ROptionCmp(self.window_name, other.window_name)
    ELSE ROptionCmp(self.additional_metadata.slot,
                    other.additional_metadata.slot)

MetadataCmp(self, other) == ROptionCmp(self.window_name, other.window_name)

MetadataPartialCmp(self, other) ==
    [tag |-> "Some", val |-> ROptionCmp(self.window_name, other.window_name)]

Then(o, rest) == IF o # "Equal" THEN o ELSE rest

\* a mutant of IdentifierCmp: restricted to the key fields
IdentifierCmpKeyOnly(self, other) ==
    Then(StrCmp(self.module, other.module),
         StrCmp(self.activity, other.activity))

\* derive(Ord) on ActivityIdentifier: module, activity, metadata in turn
IdentifierCmp(self, other) ==
    Then(StrCmp(self.module, other.module),
    Then(StrCmp(self.activity, other.activity),
         MetadataCmp(self.metadata, other.metadata)))

\* derive(PartialOrd): the fields' partial_cmp in turn
IdentifierPartialCmp(self, other) ==
    [tag |-> "Some",
     val |-> Then(StrCmp(self.module, other.module),
             Then(StrCmp(self.activity, other.activity),
                  MetadataPartialCmp(self.metadata, other.metadata).val))]

---------------------------------------------------------------------------
\* Two identifiers, as in the tests of module.rs: each is made by new() and
\* its metadata edited through metadata_mut / set_metadata

Metadatas ==
    [window_name : {RNone} \cup {RSome(s) : s \in Strs},
     additional_metadata :
        [entries : SUBSET (MetaKeys \X MetaVals),
         slot : {RNone} \cup {RSome(s) : s \in SlotVals}]]

PairInit ==
    /\ act \in {New(m, a) : m \in ModuleNames, a \in ActivityNames}
    /\ act2 \in {New(m, a) : m \in ModuleNames, a \in ActivityNames}

PairRest ==
    /\ act = New(<<1>>, <<1>>)
    /\ act2 = New(<<1>>, <<1>>)

ActSetWindowName ==
    /\ \E w \in Strs : act' = MetadataMut(act, SetWindowName(act.metadata, w))
    /\ UNCHANGED <<act2, frameVars, modVars, chanVars>>

ActInsertAdditional ==
    /\ \E k \in MetaKeys, v \in MetaVals :
          act' = MetadataMut(act, InsertAdditional(act.metadata, k, v))
    /\ UNCHANGED <<act2, frameVars, modVars, chanVars>>

ActSetAdditionalMetadata ==
    /\ \E s \in SlotVals :
          act' = MetadataMut(act, SetAdditionalMetadata(act.metadata, s))
    /\ UNCHANGED <<act2, frameVars, modVars, chanVars>>

ActResetMetadata ==
    /\ act' = SetMetadata(act, MetadataNew)
    /\ UNCHANGED <<act2, frameVars, modVars, chanVars>>

Act2SetWindowName ==
    /\ \E w \in Strs : act2' = MetadataMut(act2, SetWindowName(act2.metadata, w))
    /\ UNCHANGED <<act, frameVars, modVars, chanVars>>

Act2InsertAdditional ==
    /\ \E k \in MetaKeys, v \in MetaVals :
          act2' = MetadataMut(act2, InsertAdditional(act2.metadata, k, v))
    /\ UNCHANGED <<act, frameVars, modVars, chanVars>>

Act2SetAdditionalMetadata ==
    /\ \E s \in SlotVals :
          act2' = MetadataMut(act2, SetAdditionalMetadata(act2.metadata, s))
    /\ UNCHANGED <<act, frameVars, modVars, chanVars>>

Act2ResetMetadata ==
    /\ act2' = SetMetadata(act2, MetadataNew)
    /\ UNCHANGED <<act, frameVars, modVars, chanVars>>

PairNext ==
    \/ ActSetWindowName
    \/ ActInsertAdditional
    \/ ActSetAdditionalMetadata
    \/ ActResetMetadata
    \/ Act2SetWindowName
    \/ Act2InsertAdditional
    \/ Act2SetAdditionalMetadata
    \/ Act2ResetMetadata

---------------------------------------------------------------------------
\* One identifier and one free-standing ActivityMetadata: the metadata is
\* built with its setters and installed with set_metadata, or the
\* identifier's own metadata is edited through metadata_mut

FrameInit ==
    /\ \E m \in ModuleNames, a \in ActivityNames :
          /\ newArgs = [module_name |-> m, activity_name |-> a]
          /\ id = New(m, a)
          /\ orig = New(m, a)
    /\ meta = MetadataNew
    /\ lastName = None
    /\ setCalls = 0

FrameRest ==
    /\ newArgs = [module_name |-> <<1>>, activity_name |-> <<1>>]
    /\ id = New(<<1>>, <<1>>)
    /\ orig = New(<<1>>, <<1>>)
    /\ meta = MetadataNew
    /\ lastName = None
    /\ setCalls = 0

MetaSetWindowName ==
    /\ setCalls < MaxCalls
    /\ \E w \in Strs :
          /\ meta' = SetWindowName(meta, w)
          /\ lastName' = Some(w)
    /\ setCalls' = setCalls + 1
    /\ UNCHANGED <<id, newArgs, orig, pairVars, modVars, chanVars>>

MetaSetAdditionalMetadata ==
    /\ \E s \in SlotVals : meta' = SetAdditionalMetadata(meta, s)
    /\ UNCHANGED <<id, newArgs, orig, lastName, setCalls, pairVars, modVars, chanVars>>

IdSetMetadata ==
    /\ id' = SetMetadata(id, meta)
    /\ UNCHANGED <<newArgs, orig, meta, lastName, setCalls, pairVars, modVars, chanVars>>

IdMetadataMutSetWindowName ==
    /\ \E w \in Strs : id' = MetadataMut(id, SetWindowName(id.metadata, w))
    /\ UNCHANGED <<newArgs, orig, meta, lastName, setCalls, pairVars, modVars, chanVars>>

IdMetadataMutSetAdditionalMetadata ==
    /\ \E s \in SlotVals :
          id' = MetadataMut(id, SetAdditionalMetadata(id.metadata, s))
    /\ UNCHANGED <<newArgs, orig, meta, lastName, setCalls, pairVars, modVars, chanVars>>

\* any other edit through the reference: the metadata becomes any value
IdMetadataMutAssign ==
    /\ \E md \in Metadatas : id' = MetadataMut(id, md)
    /\ UNCHANGED <<newArgs, orig, meta, lastName, setCalls, pairVars, modVars, chanVars>>

FrameNext ==
    \/ MetaSetWindowName
    \/ MetaSetAdditionalMetadata
    \/ IdSetMetadata
    \/ IdMetadataMutSetWindowName
    \/ IdMetadataMutSetAdditionalMetadata
    \/ IdMetadataMutAssign

---------------------------------------------------------------------------
\* The command channel: RSender<UIServerCommand> handles, cloned per module,
\* feed one receiver the host drains

MaxSends == 2               \* commands one module sends

Commands ==
    {[tag |-> "AddActivity"], [tag |-> "RemoveActivity"],
     [tag |-> "RestartProducers"], [tag |-> "RequestNotification"]}

\* a mutant of ChannelSend: the command jumps the queue
ChannelSendFront(q, m, n, c) == <<[from |-> m, n |-> n, cmd |-> c]>> \o q

\* send on module m's handle: the n-th command of that handle is enqueued
ChannelSend(q, m, n, c) == Append(q, [from |-> m, n |-> n, cmd |-> c])

ChanInit ==
    /\ chan = <<>>
    /\ sent = [m \in ModuleNames |-> 0]
    /\ received = <<>>

Send ==
    /\ \E m \in ModuleNames, c \in Commands :
          /\ sent[m] < MaxSends
          /\ chan' = ChannelSend(chan, m, sent[m] + 1, c)
          /\ sent' = [sent EXCEPT ![m] = @ + 1]
    /\ UNCHANGED <<received, pairVars, frameVars, modVars>>

HostRecv ==
    /\ chan # <<>>
    /\ received' = Append(received, Head(chan))
    /\ chan' = Tail(chan)
    /\ UNCHANGED <<sent, pairVars, frameVars, modVars>>

ChanNext == Send \/ HostRecv

---------------------------------------------------------------------------
\* The module behind SabiModule, as the trait's doc examples write it

NAME == <<1>>               \* the module's name, one of ModuleNames

DefaultExampleValue == 42   \* ModuleConfig::default()

ROk(v)  == [tag |-> "ROk", val |-> v]
RErr(e) == [tag |-> "RErr", val |-> e]
Panic   == [tag |-> "panic", val |-> ""]
NoRet   == [tag |-> "none", val |-> ""]

ModuleConfigDefault == [example_value |-> DefaultExampleValue]

\* configuration blobs, as token sequences
IntLiterals == {"7", "42"}
IntOf(tok)  == IF tok = "7" THEN 7 ELSE 42
Literals    == IntLiterals \cup {"true"}

Blobs ==
    {<<"(", ")">>,
     <<"(", "example_value", ":", "7", ")">>,
     <<"(", "example_value", ":", "42", ")">>,
     <<"(", "example_value", ":", "true", ")">>,
     <<"(", "other", ":", "7", ")">>,
     <<"(", "example_value", ":">>,
     <<>>}

\* ron::from_str::<ron::Value>: a struct of zero or one field, or an error
RonFromStr(blob) ==
    IF blob = <<"(", ")">> THEN [tag |-> "Ok", fields |-> {}]
    ELSE IF /\ Len(blob) = 5
            /\ blob[1] = "(" /\ blob[3] = ":" /\ blob[5] = ")"
            /\ blob[2] \in {"example_value", "other"}
            /\ blob[4] \in Literals
         THEN [tag |-> "Ok", fields |-> {<<blob[2], blob[4]>>}]
    ELSE [tag |-> "Err", fields |-> {}]

\* Value::into_rust::<ModuleConfig> under #[serde(default)]: a missing field
\* takes its default, an unknown field is skipped, a field of the wrong type
\* is an error
IntoRust(value) ==
    IF \E f \in value.fields : f[1] = "example_value" /\ f[2] \notin IntLiterals
    THEN [tag |-> "Err", val |-> ModuleConfigDefault]
    ELSE IF \E f \in value.fields : f[1] = "example_value"
    THEN [tag |-> "Ok",
          val |-> [example_value |->
                     IntOf((CHOOSE f \in value.fields : f[1] = "example_value")[2])]]
    ELSE [tag |-> "Ok", val |-> ModuleConfigDefault]

CliCommands == {<<>>, <<"help">>}

Producers    == {"p1", "p2"}
MaxProducers == 2           \* producers one init registers
MaxRestarts  == 2           \* calls of restart_producers

ProducerLists ==
    UNION {[1..n -> Producers] : n \in 1..MaxProducers}

ModInit ==
    /\ config = ModuleConfigDefault
    /\ phase = "Constructed"
    /\ ret = NoRet
    /\ lastOp = "new"
    /\ lastArg = <<>>
    /\ preConfig = ModuleConfigDefault
    /\ initTask = [state |-> "none", config |-> ModuleConfigDefault]
    /\ registered = <<>>
    /\ tasks = {}
    /\ rtGen = 0
    /\ pc = "idle"
    /\ idx = 1
    /\ invoked = <<>>
    /\ preTasks = {}

\* the host calls capabilities one at a time on the UI thread, and none
\* after a panic has unwound out of one
Callable == phase # "Aborted" /\ pc = "idle"

\* init: clones the config and spawns the closure on the main context
ModuleInit ==
    /\ Callable
    /\ phase = "Constructed"
    /\ phase' = "Initialized"
    /\ initTask' = [state |-> "spawned", config |-> config]
    /\ lastOp' = "init"
    /\ lastArg' = <<>>
    /\ preConfig' = config
    /\ ret' = NoRet
    /\ UNCHANGED <<config, registered, tasks, rtGen, pc, idx, invoked, preTasks,
                   chan, sent, received, pairVars, frameVars>>

\* the spawned closure: registers the activity when the captured config asks
\* for it, then the producers
InitClosure ==
    /\ Callable
    /\ initTask.state = "spawned"
    /\ IF initTask.config.example_value = 42
       THEN /\ chan' = ChannelSend(chan, NAME, sent[NAME] + 1,
                                   [tag |-> "AddActivity"])
            /\ sent' = [sent EXCEPT ![NAME] = @ + 1]
       ELSE UNCHANGED <<chan, sent>>
    /\ \E ps \in ProducerLists : registered' = registered \o ps
    /\ initTask' = [initTask EXCEPT !.state = "done"]
    /\ lastOp' = "init_closure"
    /\ lastArg' = <<>>
    /\ preConfig' = config
    /\ UNCHANGED <<config, phase, ret, tasks, rtGen, pc, idx, invoked, preTasks,
                   received, pairVars, frameVars>>

\* update_config: unwrap the parsed value, convert it or keep the old config,
\* return ROk(())
UpdateConfigResult(old_config, blob) ==
    LET conf == RonFromStr(blob) IN
    IF conf.tag = "Err"
    THEN [config |-> old_config, ret |-> Panic]
    ELSE [config |-> IF IntoRust(conf).tag = "Ok"
                     THEN IntoRust(conf).val ELSE old_config,
          ret |-> ROk("()")]

UpdateConfig ==
    /\ Callable
    /\ \E blob \in Blobs :
          LET r == UpdateConfigResult(config, blob) IN
          /\ config' = r.config
          /\ ret' = r.ret
          /\ phase' = IF r.ret = Panic THEN "Aborted" ELSE phase
          /\ lastArg' = blob
    /\ lastOp' = "update_config"
    /\ preConfig' = config
    /\ UNCHANGED <<initTask, registered, tasks, rtGen, pc, idx, invoked,
                   preTasks, chanVars, pairVars, frameVars>>

\* a mutant of NotImplemented: success with an empty string
EmptySuccess == ROk("")

\* the default bodies of default_config and cli_command
NotImplemented == RErr("NotImplementedError")

DefaultConfig ==
    /\ Callable
    /\ ret' = NotImplemented
    /\ lastOp' = "default_config"
    /\ lastArg' = <<>>
    /\ preConfig' = config
    /\ UNCHANGED <<config, phase, initTask, registered, tasks, rtGen, pc, idx,
                   invoked, preTasks, chanVars, pairVars, frameVars>>

CliCommand ==
    /\ Callable
    /\ \E command \in CliCommands : lastArg' = command
    /\ ret' = NotImplemented
    /\ lastOp' = "cli_command"
    /\ preConfig' = config
    /\ UNCHANGED <<config, phase, initTask, registered, tasks, rtGen, pc, idx,
                   invoked, preTasks, chanVars, pairVars, frameVars>>

\* ProducerRuntime, which the example calls into
ShutdownBlocking(running) == {}
ResetBlocking(gen) == gen + 1
Spawn(running, reg, gen) ==
    running \cup {[reg |-> reg, gen |-> gen, ran |-> FALSE]}

\* restart_producers is entered
RestartCall ==
    /\ Callable
    /\ rtGen < MaxRestarts
    /\ pc' = "shutdown"
    /\ preTasks' = tasks
    /\ invoked' = [i \in 1..Len(registered) |-> 0]
    /\ lastOp' = "restart_producers_call"
    /\ lastArg' = <<>>
    /\ preConfig' = config
    /\ UNCHANGED <<config, phase, ret, initTask, registered, tasks, rtGen, idx,
                   chanVars, pairVars, frameVars>>

\* a mutant of RestartShutdown: the runtime is not shut down
RestartShutdownSkipped ==
    /\ pc = "shutdown"
    /\ pc' = "reset"
    /\ lastOp' = "shutdown_blocking"
    /\ UNCHANGED <<config, phase, ret, lastArg, preConfig, initTask, registered,
                   tasks, rtGen, idx, invoked, preTasks, chanVars, pairVars,
                   frameVars>>

\* self.producers_rt.shutdown_blocking()
RestartShutdown ==
    /\ pc = "shutdown"
    /\ tasks' = ShutdownBlocking(tasks)
    /\ pc' = "reset"
    /\ lastOp' = "shutdown_blocking"
    /\ UNCHANGED <<config, phase, ret, lastArg, preConfig, initTask, registered,
                   rtGen, idx, invoked, preTasks, chanVars, pairVars, frameVars>>

\* self.producers_rt.reset_blocking(), then the iteration starts
RestartReset ==
    /\ pc = "reset"
    /\ rtGen' = ResetBlocking(rtGen)
    /\ pc' = "loop"
    /\ idx' = 1
    /\ lastOp' = "reset_blocking"
    /\ UNCHANGED <<config, phase, ret, lastArg, preConfig, initTask, registered,
                   tasks, invoked, preTasks, chanVars, pairVars, frameVars>>

\* one turn of the loop: producer(self), which starts its task on the runtime
RestartInvoke ==
    /\ pc = "loop"
    /\ idx <= Len(registered)
    /\ tasks' = Spawn(tasks, idx, rtGen)
    /\ invoked' = [invoked EXCEPT ![idx] = @ + 1]
    /\ idx' = idx + 1
    /\ lastOp' = "producer"
    /\ UNCHANGED <<config, phase, ret, lastArg, preConfig, initTask, registered,
                   rtGen, pc, preTasks, chanVars, pairVars, frameVars>>

\* the loop is over and restart_producers returns
RestartReturn ==
    /\ pc = "loop"
    /\ idx > Len(registered)
    /\ pc' = "idle"
    /\ lastOp' = "restart_producers"
    /\ UNCHANGED <<config, phase, ret, lastArg, preConfig, initTask, registered,
                   tasks, rtGen, idx, invoked, preTasks, chanVars, pairVars,
                   frameVars>>

\* a producer's task runs on the runtime's threads, whatever the UI thread does
TaskRun ==
    /\ \E t \in tasks :
          /\ ~t.ran
          /\ tasks' = (tasks \ {t}) \cup {[t EXCEPT !.ran = TRUE]}
    /\ lastOp' = "producer_task"
    /\ UNCHANGED <<config, phase, ret, lastArg, preConfig, initTask, registered,
                   rtGen, pc, idx, invoked, preTasks, chanVars, pairVars,
                   frameVars>>

ModNext ==
    \/ ModuleInit
    \/ InitClosure
    \/ UpdateConfig
    \/ DefaultConfig
    \/ CliCommand
    \/ RestartCall
    \/ RestartShutdown
    \/ RestartReset
    \/ RestartInvoke
    \/ RestartReturn
    \/ TaskRun

---------------------------------------------------------------------------
\* Specifications

Init == PairInit /\ FrameRest /\ ModInit /\ ChanInit
Next == PairNext
Spec == Init /\ [][Next]_vars

InitFrame == PairRest /\ FrameInit /\ ModInit /\ ChanInit
SpecFrame == InitFrame /\ [][FrameNext]_vars

InitModule == PairRest /\ FrameRest /\ ModInit /\ ChanInit
SpecModule == InitModule /\ [][ModNext]_vars

InitChan == PairRest /\ FrameRest /\ ModInit /\ ChanInit
SpecChan == InitChan /\ [][ChanNext]_vars

---------------------------------------------------------------------------
\* Properties

\* a is lexically less than b: they agree up to a position where a ends or
\* holds the smaller character
LexLess(a, b) ==
    \E i \in 1..Len(b) :
        /\ i <= Len(a) + 1
        /\ \A j \in 1..(i - 1) : a[j] = b[j]
        /\ (i = Len(a) + 1 \/ a[i] < b[i])

AdditionalValues ==
    [entries : SUBSET (MetaKeys \X MetaVals),
     slot : {RNone} \cup {RSome(s) : s \in SlotVals}]

\* C1: two identifiers are == exactly when their module and activity are
\* equal, whatever their metadata; equal identifiers hash the same, and a
\* hash set holding one reports that it contains the other.
C1_EqHash ==
    /\ IdentifierEq(act, act2)
          <=> (Module(act) = Module(act2) /\ Activity(act) = Activity(act2))
    /\ IdentifierEq(act, act2)
          => /\ IdentifierHash(act) = IdentifierHash(act2)
             /\ HashSetContains({act}, act2)

C1_Witness ==
    /\ IdentifierEq(act, act2)
    /\ act.metadata = MetadataDefault
    /\ act2.metadata.window_name.tag = "RSome"
    /\ act2.metadata.additional_metadata.entries # {}

\* C2: after new(m, a), every sequence of metadata_mut edits, set_metadata,
\* set_window_name and set_additional_metadata leaves module() = m and
\* activity() = a, and the identifier equal to, and hashing as, the one
\* created.
C2_KeyFrame ==
    /\ Module(id) = newArgs.module_name
    /\ Activity(id) = newArgs.activity_name
    /\ IdentifierEq(id, orig)
    /\ IdentifierHash(id) = IdentifierHash(orig)

C2_Witness ==
    /\ newArgs.module_name # newArgs.activity_name
    /\ WindowName(Metadata(id)) # None
    /\ AdditionalMetadata(Metadata(id)) # None
    /\ Metadata(id).additional_metadata.entries # {}
    /\ Metadata(id) # meta

\* C3 as the spec states it: the order of ActivityMetadata is that of the
\* window names, a metadata with no window name being less than every
\* metadata with one.
C3_Original ==
    LET m1 == act.metadata
        m2 == act2.metadata
    IN  /\ (WindowName(m1) = None /\ WindowName(m2) # None)
              => MetadataCmp(m1, m2) = "Less"
        /\ (WindowName(m1) # None /\ WindowName(m2) # None)
              => (MetadataCmp(m1, m2) = "Less"
                    <=> LexLess(WindowName(m1).val, WindowName(m2).val))
        /\ \A ad \in AdditionalValues :
              MetadataCmp([m1 EXCEPT !.additional_metadata = ad], m2)
                 = MetadataCmp(m1, m2)

\* C3 amended: the order of ActivityMetadata is decided by window_name
\* alone; a metadata with no window name is greater than every metadata
\* with one, two metadata with window names order by lexical comparison of
\* the names, and additional_metadata never changes the result of cmp or
\* partial_cmp.
C3_Amended ==
    LET m1 == act.metadata
        m2 == act2.metadata
    IN  /\ (WindowName(m1) = None /\ WindowName(m2) # None)
              => MetadataCmp(m1, m2) = "Greater"
        /\ (WindowName(m1) # None /\ WindowName(m2) = None)
              => MetadataCmp(m1, m2) = "Less"
        /\ (WindowName(m1) = None /\ WindowName(m2) = None)
              => MetadataCmp(m1, m2) = "Equal"
        /\ (WindowName(m1) # None /\ WindowName(m2) # None)
              => /\ MetadataCmp(m1, m2) = "Less"
                    <=> LexLess(WindowName(m1).val, WindowName(m2).val)
                 /\ MetadataCmp(m1, m2) = "Greater"
                    <=> LexLess(WindowName(m2).val, WindowName(m1).val)
        /\ MetadataPartialCmp(m1, m2) = [tag |-> "Some", val |-> MetadataCmp(m1, m2)]
        /\ \A ad \in AdditionalValues :
              /\ MetadataCmp([m1 EXCEPT !.additional_metadata = ad], m2)
                    = MetadataCmp(m1, m2)
              /\ MetadataCmp(m1, [m2 EXCEPT !.additional_metadata = ad])
                    = MetadataCmp(m1, m2)
              /\ MetadataPartialCmp([m1 EXCEPT !.additional_metadata = ad], m2)
                    = MetadataPartialCmp(m1, m2)

C3_Witness ==
    /\ WindowName(act.metadata) = None
    /\ WindowName(act2.metadata) # None
    /\ act.metadata.additional_metadata # act2.metadata.additional_metadata
    /\ MetadataCmp(act.metadata, act2.metadata) = "Greater"

\* C4: for two identifiers with the same module and activity, cmp is
\* decided by the window names: the one with no window name is Greater than
\* the one with a window name, and with the same window name cmp is Equal
\* even when the additional metadata differ.
C4_SameKeyCmp ==
    (Module(act) = Module(act2) /\ Activity(act) = Activity(act2))
    => LET w1 == WindowName(Metadata(act))
           w2 == WindowName(Metadata(act2))
       IN  /\ (w1 = None /\ w2 # None) => IdentifierCmp(act, act2) = "Greater"
           /\ (w1 # None /\ w2 = None) => IdentifierCmp(act, act2) = "Less"
           /\ (w1 = w2) => IdentifierCmp(act, act2) = "Equal"
           /\ (w1 # None /\ w2 # None)
                 => (IdentifierCmp(act, act2) = "Less" <=> LexLess(w1.val, w2.val))
           /\ IdentifierPartialCmp(act, act2).val = IdentifierCmp(act, act2)

C4_Witness ==
    /\ Module(act) = Module(act2) /\ Activity(act) = Activity(act2)
    /\ WindowName(Metadata(act)) # None
    /\ WindowName(Metadata(act)) = WindowName(Metadata(act2))
    /\ act.metadata.additional_metadata # act2.metadata.additional_metadata
    /\ IdentifierCmp(act, act2) = "Equal"

\* C5: set_window_name overwrites: window_name() is Some of the last
\* argument (None when never called), a second call with the same value
\* changes nothing, and additional_metadata is left as it was.
C5_Overwrite ==
    /\ WindowName(meta) = lastName
    /\ (setCalls = 0) <=> (WindowName(meta) = None)
    /\ \A w \in Strs :
          LET once == SetWindowName(meta, w)
          IN  /\ WindowName(once) = Some(w)
              /\ SetWindowName(once, w) = once
              /\ once.additional_metadata = meta.additional_metadata

C5_Witness ==
    /\ setCalls >= 2
    /\ WindowName(meta) = Some(<<2, 1>>)
    /\ AdditionalMetadata(meta) # None

\* what a capability may change of the module
ModuleState ==
    <<config, phase, initTask, registered, tasks, rtGen, pc, chan, sent>>

\* C6: the default default_config and cli_command return an error carrying
\* NotImplementedError, for every command, and leave the module's state as
\* it was.
C6_NotImplemented ==
    [][lastOp' \in {"default_config", "cli_command"}
         => /\ ret' = RErr("NotImplementedError")
            /\ ModuleState' = ModuleState]_vars

C6_Witness ==
    /\ lastOp = "cli_command"
    /\ lastArg # <<>>
    /\ ret = RErr("NotImplementedError")
    /\ phase = "Initialized"
    /\ tasks # {}

\* input that does not parse into the module's configuration
Malformed(blob) ==
    \/ RonFromStr(blob).tag = "Err"
    \/ IntoRust(RonFromStr(blob)).tag = "Err"

\* C7: update_config with malformed input keeps the configuration held
\* before the call and returns a ConfigParseError failure, not success and
\* not an abort.
C7_Original ==
    (lastOp = "update_config" /\ Malformed(lastArg))
    => /\ config = preConfig
       /\ ret = RErr("ConfigParseError")

C9_Fifo ==
    /\ \A i \in 1..Len(received), j \in 1..Len(received) :
          (i < j /\ received[i].from = received[j].from)
             => received[i].n < received[j].n
    /\ \A i \in 1..Len(received), j \in 1..Len(chan) :
          received[i].from = chan[j].from => received[i].n < chan[j].n

C9_Witness ==
    \E i \in 1..Len(received), j \in 1..Len(received), k \in 1..Len(received) :
        /\ i < j /\ j < k
        /\ received[i].from = received[k].from
        /\ received[i].from # received[j].from
        /\ received[i].cmd # received[k].cmd

\* C10 as the spec states it: cmp is Equal exactly when the identifiers are
\* ==.
C10_Original ==
    (IdentifierCmp(act, act2) = "Equal") <=> IdentifierEq(act, act2)

\* C10 amended: cmp is Equal exactly when the identifiers are == and their
\* window names are the same; identifiers with the same (module, activity)
\* and different window names are == and hash alike but do not compare
\* Equal.
C10_Amended ==
    /\ (IdentifierCmp(act, act2) = "Equal")
          <=> /\ IdentifierEq(act, act2)
              /\ WindowName(Metadata(act)) = WindowName(Metadata(act2))
    /\ (IdentifierEq(act, act2)
          /\ WindowName(Metadata(act)) # WindowName(Metadata(act2)))
          => /\ IdentifierCmp(act, act2) # "Equal"
             /\ IdentifierHash(act) = IdentifierHash(act2)

C10_Witness ==
    /\ IdentifierEq(act, act2)
    /\ WindowName(Metadata(act)) # None
    /\ WindowName(Metadata(act2)) # None
    /\ WindowName(Metadata(act)) # WindowName(Metadata(act2))
    /\ IdentifierCmp(act, act2) = "Less"

=============================================================================
